---- MODULE Spec2Model ----
(***************************************************************************)
(* Model of the generic record access engine of Flask_API                  *)
(* (src/Flask_API/utils/sqlalchemy_utils.py over the schema of             *)
(* src/Flask_API/models.py).  The store is the SQLite database of the      *)
(* development settings: primary keys and NOT NULL are enforced at commit, *)
(* foreign keys are not.                                                   *)
(***************************************************************************)
EXTENDS Integers, FiniteSets, Sequences, TLC

VARIABLES rows, last, inflight

vars == <<rows, last, inflight>>

(* ---------------------------- bounds ----------------------------------- *)

\* integer keys range over 1..MaxId
MaxId == 2
\* the store holds at most MaxRows records over all tables
MaxRows == 2

(* ---------------------------- values ----------------------------------- *)

\* Python None / SQL NULL in an integer column and in a string column
NullInt == 0
NullStr == "<null>"

Ids == 1..MaxId
IdVals == Ids \cup {NullInt}

(* ---------------------------- schema (models.py) ----------------------- *)

Models == {"Table", "RelatedTable"}

\* __tablename__ of each model class, as a sequence of characters
TableName(model) ==
    IF model = "Table"
    THEN <<"T", "a", "b", "l", "e">>
    ELSE <<"R", "e", "l", "a", "t", "e", "d", "T", "a", "b", "l", "e">>

Columns(model) ==
    IF model = "Table"
    THEN {"id", "name", "description", "is_active"}
    ELSE {"id", "table_id", "info"}

\* inspect(model).primary_key
PrimaryKey(model) == {"id"}

\* columns declared nullable=False (primary keys included)
NotNull(model) ==
    IF model = "Table" THEN {"id", "name"} ELSE {"id", "table_id", "info"}

\* the value an INSERT stores in a column the new object leaves unset
ColumnDefault(model, c) ==
    CASE c = "is_active" -> TRUE
      [] c \in {"id", "table_id"} -> NullInt
      [] OTHER -> NullStr

\* ForeignKey('Table.id') on RelatedTable.table_id
ForeignKeys(model) ==
    IF model = "RelatedTable"
    THEN {[constrained_columns |-> <<"table_id">>,
           referred_table |-> "Table",
           referred_columns |-> <<"id">>]}
    ELSE {}

\* every fully populated assignment of the columns of a model that a
\* caller can put in a JSON body (None included where the column allows
\* the distinction to be observed)
TotalPayloads(model) ==
    IF model = "Table"
    THEN [id : IdVals, name : {"a", "b", NullStr},
          description : {"d"}, is_active : BOOLEAN]
    ELSE [id : IdVals, table_id : IdVals, info : {"x", "y"}]

Restrict(f, S) == [c \in S |-> f[c]]

\* the payloads: partial mappings column -> value
Payloads(model) ==
    {Restrict(r, S) : r \in TotalPayloads(model), S \in SUBSET Columns(model)}

\* the filters of delete and of the reads: at most one column
Filters(model) ==
    {f \in Payloads(model) : Cardinality(DOMAIN f) <= 1}

\* the write bodies and the filter bodies a request to a model can carry
PayloadsOf == [m \in Models |-> Payloads(m)]
FiltersOf == [m \in Models |-> Filters(m)]

(* ---------------------------- model registry --------------------------- *)

NoModel == "None"

\* str.lower() on the characters table names are built from
Lower(ch) ==
    CASE ch = "T" -> "t"
      [] ch = "R" -> "r"
      [] ch = "A" -> "a"
      [] ch = "B" -> "b"
      [] ch = "L" -> "l"
      [] ch = "E" -> "e"
      [] ch = "D" -> "d"
      [] OTHER -> ch

LowerStr(s) == [i \in 1..Len(s) |-> Lower(s[i])]

\* db.Model.__subclasses__(), in definition order
Subclasses == <<"Table", "RelatedTable">>

\* get_class_from_tablename comparing the names as they are written
get_class_from_tablename_CaseSensitive(tablename) ==
    LET hits == {i \in DOMAIN Subclasses : TableName(Subclasses[i]) = tablename}
    IN IF hits = {} THEN NoModel
       ELSE Subclasses[CHOOSE i \in hits : \A j \in hits : i <= j]

\* first model class whose __tablename__ equals tablename up to case
get_class_from_tablename(tablename) ==
    LET hits == {i \in DOMAIN Subclasses :
                    LowerStr(TableName(Subclasses[i])) = LowerStr(tablename)}
    IN IF hits = {} THEN NoModel
       ELSE Subclasses[CHOOSE i \in hits : \A j \in hits : i <= j]

(* ---------------------------- storage ---------------------------------- *)

IntCols == {"id", "table_id"}
StrCols == {"name", "description", "info"}

\* value is None
IsNull(c, v) ==
    CASE c \in IntCols -> v = NullInt
      [] c \in StrCols -> v = NullStr
      [] OTHER -> FALSE

Range(s) == {s[i] : i \in DOMAIN s}

TotalRows(db) == Cardinality(db["Table"]) + Cardinality(db["RelatedTable"])

\* the store stays within the bounds of the model
WithinBounds(db) ==
    /\ TotalRows(db) <= MaxRows
    /\ \A m \in Models : \A r \in db[m] : r.id \in Ids

\* session.query(model).filter_by(**key_value_dict).all()
get_records_by_key(db, model, key_value_dict) ==
    {r \in db[model] : \A c \in DOMAIN key_value_dict : r[c] = key_value_dict[c]}

\* session.query(model).filter_by(**key_value_dict).first(): the set of
\* records the query may return; empty when it returns None
get_record_by_key(db, model, key_value_dict) ==
    get_records_by_key(db, model, key_value_dict)

\* {c.name: getattr(record, c.name) for c in columns}; {} for None.
\* found is the empty set (None) or a one-record set.
record_as_dict(found) ==
    IF found = {} THEN <<>> ELSE CHOOSE r \in found : TRUE

(* ---------------------------- foreign-key validator -------------------- *)

\* inspector.get_foreign_keys(table_name) folded into
\* {referred_table: referred_columns}
get_model_foreign_keys(model_name) ==
    LET fks == ForeignKeys(model_name)
    IN [t \in {TableName(fk.referred_table) : fk \in fks} |->
          (CHOOSE fk \in fks : TableName(fk.referred_table) = t).referred_columns]

\* the (referred table, column) pairs the validator looks up: the columns
\* named by the mapping that are keys of data
FkLookups(model, data) ==
    LET model_fk_dict == get_model_foreign_keys(model)
    IN {p \in UNION {{<<ref, col>> : col \in Range(model_fk_dict[ref])} :
                        ref \in DOMAIN model_fk_dict} :
           p[2] \in DOMAIN data}

\* keys of the validation_errors mapping
validate_foreign_key_references(db, model, data) ==
    LET present == FkLookups(model, data)
    IN IF \E p \in present : get_class_from_tablename(p[1]) = NoModel
       THEN {"foreign_key_validation"}
       ELSE {p[2] : p \in {q \in present :
                 get_record_by_key(db, get_class_from_tablename(q[1]),
                                   [c \in {q[2]} |-> data[q[2]]]) = {}}}

(* ---------------------------- repository ------------------------------- *)

\* what a repository function did: its return value, the branch it took,
\* the store it leaves, the number of queries it ran, and the state it
\* leaves db.session in (active: nothing pending, a new transaction can
\* begin)
Outcome(ret, why, db, lookups) ==
    [ret |-> ret, why |-> why, db |-> db, lookups |-> lookups,
     session |-> "active"]

\* a commit whose exception leaves the function: the flush failed, nothing
\* is stored, and no db.session.rollback() ran, so the session refuses
\* further work until it is rolled back or removed
Unhandled(db, lookups) ==
    [ret |-> "raised", why |-> "storage_error", db |-> db,
     lookups |-> lookups, session |-> "needs_rollback"]

\* NewRecord with the declared column defaults dropped
NewRecord_NoDefault(model, data) ==
    [c \in Columns(model) |->
        IF c \in DOMAIN data /\ ~IsNull(c, data[c])
        THEN data[c]
        ELSE CASE c \in IntCols -> NullInt
               [] c \in StrCols -> NullStr
               [] OTHER -> FALSE]

\* model(**data): the object handed to the session
NewRecord(model, data) ==
    [c \in Columns(model) |->
        IF c \in DOMAIN data /\ ~IsNull(c, data[c])
        THEN data[c] ELSE ColumnDefault(model, c)]

\* a column declared NOT NULL, other than the generated key, holds NULL
ViolatesNotNull(model, r) ==
    \E c \in NotNull(model) \ PrimaryKey(model) : IsNull(c, r[c])

\* CommitInsert on a store that does not enforce the primary key
CommitInsert_NoUnique(db, model, r) ==
    LET used == {x.id : x \in db[model]}
        next_id == IF used = {} THEN 1
                   ELSE 1 + CHOOSE k \in used : \A j \in used : j <= k
        keyed == IF IsNull("id", r.id) THEN [r EXCEPT !.id = next_id] ELSE r
    IN IF ViolatesNotNull(model, r)
       THEN {}
       ELSE {[db EXCEPT ![model] = @ \cup {keyed}]}

\* session.add(new_record); session.commit(): the stores the commit can
\* produce, empty when the commit raises.  A NULL integer key is generated
\* by the store as one more than the largest key in use.
CommitInsert(db, model, r) ==
    LET used == {x.id : x \in db[model]}
        next_id == IF used = {} THEN 1
                   ELSE 1 + CHOOSE k \in used : \A j \in used : j <= k
        keyed == IF IsNull("id", r.id) THEN [r EXCEPT !.id = next_id] ELSE r
    IN IF ViolatesNotNull(model, r) \/ keyed.id \in used
       THEN {}
       ELSE {[db EXCEPT ![model] = @ \cup {keyed}]}

\* create_record that overwrites an existing record instead of rejecting
create_record_Overwrite(db, model, data) ==
    LET primary_keys == PrimaryKey(model)
        filter_criteria == Restrict(data, primary_keys \cap DOMAIN data)
        fk_validation_errors == validate_foreign_key_references(db, model, data)
        nfk == Cardinality(FkLookups(model, data))
        existing_record == get_record_by_key(db, model, filter_criteria)
        cleared == [db EXCEPT ![model] = @ \ existing_record]
        committed == CommitInsert(cleared, model, NewRecord(model, data))
    IN IF DOMAIN filter_criteria = {}
       THEN {Outcome("false", "no_primary_key", db, 0)}
       ELSE IF fk_validation_errors # {}
       THEN {Outcome("false", "foreign_key", db, nfk)}
       ELSE IF committed = {}
       THEN {Outcome("false", "storage_error", db, nfk + 1)}
       ELSE {Outcome("true", "ok", d, nfk + 1) : d \in committed}

\* create_record without the missing-primary-key check
create_record_NoPkCheck(db, model, data) ==
    LET primary_keys == PrimaryKey(model)
        filter_criteria == Restrict(data, primary_keys \cap DOMAIN data)
        fk_validation_errors == validate_foreign_key_references(db, model, data)
        nfk == Cardinality(FkLookups(model, data))
        existing_record == get_record_by_key(db, model, filter_criteria)
        committed == CommitInsert(db, model, NewRecord(model, data))
    IN IF fk_validation_errors # {}
       THEN {Outcome("false", "foreign_key", db, nfk)}
       ELSE IF existing_record # {}
       THEN {Outcome("false", "exists", db, nfk + 1)}
       ELSE IF committed = {}
       THEN {Outcome("false", "storage_error", db, nfk + 1)}
       ELSE {Outcome("true", "ok", d, nfk + 1) : d \in committed}

create_record(db, model, data) ==
    LET primary_keys == PrimaryKey(model)
        filter_criteria == Restrict(data, primary_keys \cap DOMAIN data)
        fk_validation_errors == validate_foreign_key_references(db, model, data)
        nfk == Cardinality(FkLookups(model, data))
        existing_record == get_record_by_key(db, model, filter_criteria)
        committed == CommitInsert(db, model, NewRecord(model, data))
    IN IF DOMAIN filter_criteria = {}
       THEN {Outcome("false", "no_primary_key", db, 0)}
       ELSE IF fk_validation_errors # {}
       THEN {Outcome("false", "foreign_key", db, nfk)}
       ELSE IF existing_record # {}
       THEN {Outcome("false", "exists", db, nfk + 1)}
       ELSE IF committed = {}
       THEN {Outcome("false", "storage_error", db, nfk + 1)}
       ELSE {Outcome("true", "ok", d, nfk + 1) : d \in committed}

\* ApplyFields that rebuilds the record from data alone: a column absent
\* from data loses its value
ApplyFields_Replace(record, data, primary_keys) ==
    [c \in DOMAIN record |->
        IF c \in primary_keys THEN record[c]
        ELSE IF c \in DOMAIN data THEN data[c]
        ELSE CASE c \in IntCols -> NullInt
               [] c \in StrCols -> NullStr
               [] OTHER -> FALSE]

\* setattr(record, key, value) for every key of data outside primary_keys
ApplyFields(record, data, primary_keys) ==
    [c \in DOMAIN record |->
        IF c \in DOMAIN data /\ c \notin primary_keys THEN data[c] ELSE record[c]]

\* session.commit() of a modified record: the store after the commit,
\* empty when the commit raises
CommitUpdate(db, model, old, new) ==
    IF ViolatesNotNull(model, new)
    THEN {}
    ELSE {[db EXCEPT ![model] = (@ \ {old}) \cup {new}]}

\* update_record that inserts the payload when no record has its key
update_record_Upsert(db, model, data) ==
    LET primary_keys == PrimaryKey(model)
        filter_criteria == Restrict(data, primary_keys \cap DOMAIN data)
        found == get_record_by_key(db, model, filter_criteria)
        fk_validation_errors == validate_foreign_key_references(db, model, data)
        nfk == Cardinality(FkLookups(model, data))
        inserted == CommitInsert(db, model, NewRecord(model, data))
    IN IF DOMAIN filter_criteria = {}
       THEN {Outcome("false", "no_primary_key", db, 0)}
       ELSE IF found = {}
       THEN IF inserted = {}
            THEN {Outcome("false", "not_found", db, 1)}
            ELSE {Outcome("true", "ok", d, 1) : d \in inserted}
       ELSE IF fk_validation_errors # {}
       THEN {Outcome("false", "foreign_key", db, nfk + 1)}
       ELSE UNION {
              LET committed == CommitUpdate(db, model, record,
                                   ApplyFields(record, data, primary_keys))
              IN IF committed = {}
                 THEN {Outcome("false", "storage_error", db, nfk + 1)}
                 ELSE {Outcome("true", "ok", d, nfk + 1) : d \in committed}
              : record \in found}

\* update_record whose failed commit keeps the field changes that the
\* store accepts (no rollback of the unit of work)
update_record_PartialCommit(db, model, data) ==
    LET primary_keys == PrimaryKey(model)
        filter_criteria == Restrict(data, primary_keys \cap DOMAIN data)
        found == get_record_by_key(db, model, filter_criteria)
        fk_validation_errors == validate_foreign_key_references(db, model, data)
        nfk == Cardinality(FkLookups(model, data))
        accepted == Restrict(data, {c \in DOMAIN data : ~IsNull(c, data[c])})
    IN IF DOMAIN filter_criteria = {}
       THEN {Outcome("false", "no_primary_key", db, 0)}
       ELSE IF found = {}
       THEN {Outcome("false", "not_found", db, 1)}
       ELSE IF fk_validation_errors # {}
       THEN {Outcome("false", "foreign_key", db, nfk + 1)}
       ELSE UNION {
              LET committed == CommitUpdate(db, model, record,
                                   ApplyFields(record, data, primary_keys))
              IN IF committed = {}
                 THEN {Outcome("false", "storage_error",
                               [db EXCEPT ![model] = (@ \ {record}) \cup
                                  {ApplyFields(record, accepted, primary_keys)}],
                               nfk + 1)}
                 ELSE {Outcome("true", "ok", d, nfk + 1) : d \in committed}
              : record \in found}

update_record(db, model, data) ==
    LET primary_keys == PrimaryKey(model)
        filter_criteria == Restrict(data, primary_keys \cap DOMAIN data)
        found == get_record_by_key(db, model, filter_criteria)
        fk_validation_errors == validate_foreign_key_references(db, model, data)
        nfk == Cardinality(FkLookups(model, data))
    IN IF DOMAIN filter_criteria = {}
       THEN {Outcome("false", "no_primary_key", db, 0)}
       ELSE IF found = {}
       THEN {Outcome("false", "not_found", db, 1)}
       ELSE IF fk_validation_errors # {}
       THEN {Outcome("false", "foreign_key", db, nfk + 1)}
       ELSE UNION {
              LET committed == CommitUpdate(db, model, record,
                                   ApplyFields(record, data, primary_keys))
              IN IF committed = {}
                 THEN {Outcome("false", "storage_error", db, nfk + 1)}
                 ELSE {Outcome("true", "ok", d, nfk + 1) : d \in committed}
              : record \in found}

\* the (model, column) pairs holding a foreign key to ref_model, with the
\* column of ref_model each refers to
Referrers(ref_model) ==
    {<<m, fk>> \in Models \X UNION {ForeignKeys(m) : m \in Models} :
        fk \in ForeignKeys(m) /\ fk.referred_table = ref_model}

\* the records of child model p[1] that the backref of models.py loads for
\* a parent record
Children(db, p, record) ==
    {x \in db[p[1]] :
        x[p[2].constrained_columns[1]] = record[p[2].referred_columns[1]]}

\* session.delete(record); session.commit().  The backref relationship has
\* no delete cascade, so the flush first sets the foreign key of every
\* child of the record to NULL, then deletes the record; the commit raises
\* when that column is NOT NULL and a child exists.
CommitDelete(db, model, record) ==
    LET refs == Referrers(model)
        raises == \E p \in refs :
                     /\ Children(db, p, record) # {}
                     /\ p[2].constrained_columns[1] \in NotNull(p[1])
        after(m) ==
            LET mine == {p \in refs : p[1] = m}
                kids == UNION {Children(db, p, record) : p \in mine}
                nulled(x) ==
                    [c \in DOMAIN x |->
                        IF \E p \in mine : /\ x \in Children(db, p, record)
                                           /\ c = p[2].constrained_columns[1]
                        THEN NullInt ELSE x[c]]
            IN ((db[m] \ kids) \cup {nulled(x) : x \in kids})
                 \ (IF m = model THEN {record} ELSE {})
    IN IF raises THEN {} ELSE {[m \in Models |-> after(m)]}

\* delete_record whose query drops the filter
delete_record_IgnoreKey(db, model, primary_key_values) ==
    LET found == db[model]
    IN IF found = {}
       THEN {Outcome("false", "not_found", db, 1)}
       ELSE UNION {
              LET committed == CommitDelete(db, model, record)
              IN IF committed = {}
                 THEN {Unhandled(db, 1)}
                 ELSE {Outcome("true", "ok", d, 1) : d \in committed}
              : record \in found}

delete_record(db, model, primary_key_values) ==
    LET found == get_record_by_key(db, model, primary_key_values)
    IN IF found = {}
       THEN {Outcome("false", "not_found", db, 1)}
       ELSE UNION {
              LET committed == CommitDelete(db, model, record)
              IN IF committed = {}
                 THEN {Unhandled(db, 1)}
                 ELSE {Outcome("true", "ok", d, 1) : d \in committed}
              : record \in found}

(* ---------------------------- HTTP handlers ---------------------------- *)

\* the table names a request can carry: the registered ones and one that
\* is not registered
ModelNames ==
    {TableName(m) : m \in Models} \cup {<<"T", "a", "b", "l">>}

NoRows == [m \in Models |-> {}]

\* what the last request did: the route, the repository operation it ran
\* ("rejected" when the handler returned before running one), the outcome
\* of that operation, the store before it, and the response
Last(route, op, model, data, o, before, found, status, body) ==
    [route |-> route, op |-> op, model |-> model, data |-> data,
     ret |-> o.ret, why |-> o.why, lookups |-> o.lookups,
     session |-> o.session, before |-> before,
     found |-> found, status |-> status, body |-> body]

NoOutcome == Outcome("none", "none", NoRows, 0)

\* no request is being served
Idle == Last("none", "idle", NoModel, <<>>, NoOutcome, NoRows, {}, 0, "none")

\* utils.return_error(message) of a handler that ran no repository operation
Rejected(route, data, why, db) ==
    Last(route, "rejected", NoModel, data, Outcome("none", why, db, 0), db,
         {}, 400, "error")

\* the response to a write: utils.return_response(result) when the
\* repository returned, the server's error response when it raised
WriteResponse(route, op, model, data, o, before) ==
    IF o.ret = "raised"
    THEN Last(route, op, model, data, o, before, {}, 500, "exception")
    ELSE Last(route, op, model, data, o, before, {}, 200, "data")

\* the request threads of the server that can be inside a handler at once
Workers == {1, 2}

\* a thread that is serving no request
WorkerIdle ==
    [pc |-> "idle", op |-> "none", model |-> NoModel, data |-> <<>>,
     loaded |-> {}, ret |-> "none", why |-> "none", session |-> "active",
     raced |-> 0]

Init ==
    /\ rows = NoRows
    /\ last = Idle
    /\ inflight = [w \in Workers |-> WorkerIdle]

\* what every CRUD handler does first: resolve the model, then refuse an
\* empty body
Refused(route, model_name, data) ==
    /\ \/ get_class_from_tablename(model_name) = NoModel
       \/ data = <<>>
    /\ rows' = rows
    /\ last' = IF get_class_from_tablename(model_name) = NoModel
               THEN Rejected(route, data, "model_not_found", rows)
               ELSE Rejected(route, data, "invalid_json", rows)

\* POST /create/<model_name>
Create(model_name, data) ==
    /\ last = Idle
    /\ UNCHANGED inflight
    /\ LET model_class == get_class_from_tablename(model_name)
       IN \/ Refused("create", model_name, data)
          \/ /\ model_class # NoModel
             /\ data # <<>>
             /\ \E o \in create_record(rows, model_class, data) :
                   /\ WithinBounds(o.db)
                   /\ rows' = o.db
                   /\ last' = WriteResponse("create", "create", model_class,
                                            data, o, rows)

\* PUT /update/<model_name>
Update(model_name, data) ==
    /\ last = Idle
    /\ UNCHANGED inflight
    /\ LET model_class == get_class_from_tablename(model_name)
       IN \/ Refused("update", model_name, data)
          \/ /\ model_class # NoModel
             /\ data # <<>>
             /\ \E o \in update_record(rows, model_class, data) :
                   /\ rows' = o.db
                   /\ last' = WriteResponse("update", "update", model_class,
                                            data, o, rows)

\* DELETE /delete/<model_name>
Delete(model_name, data) ==
    /\ last = Idle
    /\ UNCHANGED inflight
    /\ LET model_class == get_class_from_tablename(model_name)
       IN \/ Refused("delete", model_name, data)
          \/ /\ model_class # NoModel
             /\ data # <<>>
             /\ \E o \in delete_record(rows, model_class, data) :
                   /\ rows' = o.db
                   /\ last' = WriteResponse("delete", "delete", model_class,
                                            data, o, rows)

\* GetRecord that answers a lookup without match as an error, as the
\* documentation of the route puts it
GetRecord_NotFoundIsError(model_name, data) ==
    /\ last = Idle
    /\ UNCHANGED inflight
    /\ LET model_class == get_class_from_tablename(model_name)
       IN \/ Refused("get_record", model_name, data)
          \/ /\ model_class # NoModel
             /\ data # <<>>
             /\ \E found \in
                   IF get_record_by_key(rows, model_class, data) = {}
                   THEN {{}}
                   ELSE {{r} : r \in get_record_by_key(rows, model_class, data)} :
                   /\ rows' = rows
                   /\ last' = Last("get_record", "get_record", model_class,
                                   data, Outcome("none", "ok", rows, 1), rows,
                                   found, IF found = {} THEN 400 ELSE 200,
                                   IF found = {} THEN "error" ELSE "data")

\* GET /get_record/<model_name>: found is the record returned, None as the
\* empty set; the response carries record_as_dict of it
GetRecord(model_name, data) ==
    /\ last = Idle
    /\ UNCHANGED inflight
    /\ LET model_class == get_class_from_tablename(model_name)
       IN \/ Refused("get_record", model_name, data)
          \/ /\ model_class # NoModel
             /\ data # <<>>
             /\ \E found \in
                   IF get_record_by_key(rows, model_class, data) = {}
                   THEN {{}}
                   ELSE {{r} : r \in get_record_by_key(rows, model_class, data)} :
                   /\ rows' = rows
                   /\ last' = Last("get_record", "get_record", model_class,
                                   data, Outcome("none", "ok", rows, 1), rows,
                                   found, 200, "data")

\* GET /get_records/<model_name>: every record of the model
GetRecords(model_name) ==
    /\ last = Idle
    /\ UNCHANGED inflight
    /\ LET model_class == get_class_from_tablename(model_name)
       IN IF model_class = NoModel
          THEN /\ rows' = rows
               /\ last' = Rejected("get_records", <<>>, "model_not_found", rows)
          ELSE /\ rows' = rows
               /\ last' = Last("get_records", "get_records", model_class,
                               <<>>, Outcome("none", "ok", rows, 1), rows,
                               get_records_by_key(rows, model_class, <<>>),
                               200, "data")

\* the response has left and the request context is torn down
Teardown ==
    /\ last # Idle
    /\ last' = Idle
    /\ UNCHANGED <<rows, inflight>>

\* the bodies a request to a table name can carry: the payloads (filters)
\* of the model it names, a filter of Table when it names none
WriteBodies(name) ==
    IF get_class_from_tablename(name) = NoModel
    THEN FiltersOf["Table"]
    ELSE PayloadsOf[get_class_from_tablename(name)]

FilterBodies(name) ==
    IF get_class_from_tablename(name) = NoModel
    THEN FiltersOf["Table"]
    ELSE FiltersOf[get_class_from_tablename(name)]

Next ==
    \/ \E name \in ModelNames : \E data \in WriteBodies(name) : Create(name, data)
    \/ \E name \in ModelNames : \E data \in WriteBodies(name) : Update(name, data)
    \/ \E name \in ModelNames : \E data \in FilterBodies(name) : Delete(name, data)
    \/ \E name \in ModelNames : \E data \in FilterBodies(name) : GetRecord(name, data)
    \/ \E name \in ModelNames : GetRecords(name)
    \/ Teardown

Spec == Init /\ [][Next]_vars

(* ---------------------------- schema route --------------------------- *)

\* mapper.columns, in declaration order
ColumnOrder(model) ==
    IF model = "Table"
    THEN <<"id", "name", "description", "is_active">>
    ELSE <<"id", "table_id", "info">>

\* str(column.type)
ColumnType(model, c) ==
    CASE c \in IntCols -> "INTEGER"
      [] c = "is_active" -> "BOOLEAN"
      [] c = "description" -> "VARCHAR(512)"
      [] OTHER -> "VARCHAR(256)"

\* [str(fk.target_fullname) for fk in column.foreign_keys]
ColumnForeignKeys(model, c) ==
    {<<fk.referred_table, fk.referred_columns[1]>> :
        fk \in {k \in ForeignKeys(model) : k.constrained_columns[1] = c}}

\* the list of col_info of a model; None, which the handler tests as it
\* would an empty list, is the empty sequence
get_table_schema(model_name) ==
    LET model_class == get_class_from_tablename(model_name)
    IN IF model_class = NoModel
       THEN <<>>
       ELSE [i \in DOMAIN ColumnOrder(model_class) |->
               [name |-> ColumnOrder(model_class)[i],
                type |-> ColumnType(model_class, ColumnOrder(model_class)[i]),
                primary_key |-> ColumnOrder(model_class)[i] \in PrimaryKey(model_class),
                foreign_keys |-> ColumnForeignKeys(model_class,
                                                   ColumnOrder(model_class)[i])]]

\* the other case of a letter
Upper(ch) ==
    CASE ch = "t" -> "T"
      [] ch = "r" -> "R"
      [] ch = "a" -> "A"
      [] ch = "b" -> "B"
      [] ch = "l" -> "L"
      [] ch = "e" -> "E"
      [] ch = "d" -> "D"
      [] OTHER -> ch

\* every spelling of s in upper and lower case
RECURSIVE CaseVariants(_)
CaseVariants(s) ==
    IF s = <<>> THEN {<<>>}
    ELSE {<<c>> \o v : c \in {Lower(Head(s)), Upper(Head(s))},
                       v \in CaseVariants(Tail(s))}

\* the contiguous pieces of s, s included
Substrings(s) ==
    {SubSeq(s, i, j) : i \in 1..Len(s), j \in 1..Len(s)}

\* the names a /schema request is tried with: every case variant of the
\* registered names, every piece of them in both cases, and each with one
\* more letter
NameInputs ==
    LET registered == {TableName(m) : m \in Models}
        pieces == UNION {Substrings(n) : n \in registered}
    IN UNION {CaseVariants(n) : n \in registered}
       \cup pieces
       \cup {LowerStr(q) : q \in pieces}
       \cup {n \o <<"s">> : n \in registered}

\* GET /schema/<model_name>
Schema(model_name) ==
    /\ last = Idle
    /\ UNCHANGED <<rows, inflight>>
    /\ LET model_schema == get_table_schema(model_name)
       IN last' = IF model_schema = <<>>
                  THEN Last("schema", "schema", NoModel, model_name,
                            Outcome("none", "model_not_found", rows, 0), rows,
                            {}, 404, "error")
                  ELSE Last("schema", "schema",
                            get_class_from_tablename(model_name), model_name,
                            Outcome("none", "ok", rows, 0), rows,
                            Range(model_schema), 200, "data")

NextResolve ==
    \/ \E name \in NameInputs : Schema(name)
    \/ Teardown

\* the server answering /schema requests only
SpecResolve == Init /\ [][NextResolve]_vars

(* ---------------------------- concurrent requests -------------------- *)

\* create_record up to the existence lookup (lines 23-41): the branch that
\* returns False, or "pass" when the function goes on to the insert
create_checks(db, model, data) ==
    LET primary_keys == PrimaryKey(model)
        filter_criteria == Restrict(data, primary_keys \cap DOMAIN data)
    IN IF DOMAIN filter_criteria = {} THEN "no_primary_key"
       ELSE IF validate_foreign_key_references(db, model, data) # {}
       THEN "foreign_key"
       ELSE IF get_record_by_key(db, model, filter_criteria) # {} THEN "exists"
       ELSE "pass"

\* create_commit that replaces a record another request stored meanwhile
create_commit_Merge(db, model, data) ==
    LET r == NewRecord(model, data)
        cleared == [db EXCEPT ![model] = {x \in @ : x.id # r.id}]
        committed == CommitInsert(cleared, model, r)
    IN IF committed = {}
       THEN {Outcome("false", "storage_error", db, 0)}
       ELSE {Outcome("true", "ok", d, 0) : d \in committed}

\* create_record from the insert on (lines 42-53), against the store as it
\* is when the commit runs
create_commit(db, model, data) ==
    LET committed == CommitInsert(db, model, NewRecord(model, data))
    IN IF committed = {}
       THEN {Outcome("false", "storage_error", db, 0)}
       ELSE {Outcome("true", "ok", d, 0) : d \in committed}

\* update_record up to the validation (lines 67-85): the branch that
\* returns False, or "pass" with the record the lookup loaded
update_checks(db, model, data) ==
    LET primary_keys == PrimaryKey(model)
        filter_criteria == Restrict(data, primary_keys \cap DOMAIN data)
        found == get_record_by_key(db, model, filter_criteria)
    IN IF DOMAIN filter_criteria = {}
       THEN {[why |-> "no_primary_key", loaded |-> {}]}
       ELSE IF found = {}
       THEN {[why |-> "not_found", loaded |-> {}]}
       ELSE IF validate_foreign_key_references(db, model, data) # {}
       THEN {[why |-> "foreign_key", loaded |-> {}]}
       ELSE {[why |-> "pass", loaded |-> {record}] : record \in found}

\* update_record from the setattr loop on (lines 87-98), against the store
\* as it is when the commit runs.  The flush writes the columns whose value
\* differs from the loaded record to the row with its key; it raises when
\* that row is gone or a NOT NULL column would hold NULL.
update_commit(db, model, record, data) ==
    LET changed == {c \in DOMAIN data \ PrimaryKey(model) : data[c] # record[c]}
        current == {x \in db[model] : x.id = record.id}
        written(x) == [c \in DOMAIN x |-> IF c \in changed THEN data[c] ELSE x[c]]
    IN IF changed = {}
       THEN {Outcome("true", "ok", db, 0)}
       ELSE IF current = {} \/ \E x \in current : ViolatesNotNull(model, written(x))
       THEN {Outcome("false", "storage_error", db, 0)}
       ELSE {Outcome("true", "ok",
                     [db EXCEPT ![model] = (@ \ current) \cup
                                           {written(x) : x \in current}], 0)}

\* delete_record after the lookup (lines 118-121), against the store as it
\* is when the commit runs: the row with the key of the loaded record goes
delete_commit(db, model, record) ==
    LET current == {x \in db[model] : x.id = record.id}
        target == IF current = {} THEN record ELSE CHOOSE x \in current : TRUE
        committed == CommitDelete(db, model, target)
    IN IF committed = {}
       THEN {Unhandled(db, 0)}
       ELSE {Outcome("true", "ok", d, 0) : d \in committed}

\* the bodies of the concurrent requests: complete payloads, and
\* primary-key filters
ConcPayloads ==
    [m \in Models |->
        IF m = "Table"
        THEN [id : Ids, name : {"a", "b"}]
        ELSE [id : Ids, table_id : Ids, info : {"x"}]]

ConcFilters == [m \in Models |-> [id : Ids]]

\* a thread inside a repository function.  raced is history: the thread
\* (0 for none) whose create on the same primary key had passed its
\* existence lookup, as this one had, when the first of the two committed
Working(pc, op, model, data, loaded, ret, why, session) ==
    [pc |-> pc, op |-> op, model |-> model, data |-> data, loaded |-> loaded,
     ret |-> ret, why |-> why, session |-> session, raced |-> 0]

\* the threads waiting to commit a create on the primary key that thread w
\* is about to commit a create on
Rivals(w) ==
    {v \in Workers \ {w} :
        /\ inflight[w].op = "create"
        /\ inflight[v].op = "create"
        /\ inflight[v].pc = "commit"
        /\ inflight[v].model = inflight[w].model
        /\ inflight[v].data.id = inflight[w].data.id}

\* a thread runs create_record up to the existence lookup
BeginCreate(w, model, data) ==
    /\ inflight[w].pc = "idle"
    /\ UNCHANGED <<rows, last>>
    /\ LET why == create_checks(rows, model, data)
       IN inflight' = [inflight EXCEPT ![w] =
            IF why = "pass"
            THEN Working("commit", "create", model, data, {}, "none", why, "active")
            ELSE Working("done", "create", model, data, {}, "false", why, "active")]

\* a thread runs update_record up to the validation
BeginUpdate(w, model, data) ==
    /\ inflight[w].pc = "idle"
    /\ UNCHANGED <<rows, last>>
    /\ \E c \in update_checks(rows, model, data) :
          inflight' = [inflight EXCEPT ![w] =
            IF c.why = "pass"
            THEN Working("commit", "update", model, data, c.loaded, "none",
                         c.why, "active")
            ELSE Working("done", "update", model, data, {}, "false", c.why,
                         "active")]

\* a thread runs the lookup of delete_record
BeginDelete(w, model, key) ==
    /\ inflight[w].pc = "idle"
    /\ UNCHANGED <<rows, last>>
    /\ LET found == get_record_by_key(rows, model, key)
       IN IF found = {}
          THEN inflight' = [inflight EXCEPT ![w] =
                  Working("done", "delete", model, key, {}, "false",
                          "not_found", "active")]
          ELSE \E record \in found :
                  inflight' = [inflight EXCEPT ![w] =
                     Working("commit", "delete", model, key, {record}, "none",
                             "pass", "active")]

\* what the rest of the function of thread w does to the store as it is now
CommitOutcomes(w) ==
    LET t == inflight[w]
    IN CASE t.op = "create" -> create_commit(rows, t.model, t.data)
         [] t.op = "update" ->
              UNION {update_commit(rows, t.model, record, t.data) :
                        record \in t.loaded}
         [] OTHER ->
              UNION {delete_commit(rows, t.model, record) : record \in t.loaded}

\* a thread runs the rest of its function: the commit and what follows it
EndRequest(w) ==
    /\ inflight[w].pc = "commit"
    /\ UNCHANGED last
    /\ \E o \in CommitOutcomes(w) :
          /\ WithinBounds(o.db)
          /\ rows' = o.db
          /\ inflight' = [v \in Workers |->
                IF v = w
                THEN [Working("done", inflight[w].op, inflight[w].model,
                              inflight[w].data, inflight[w].loaded, o.ret,
                              o.why, o.session)
                        EXCEPT !.raced = IF Rivals(w) = {} THEN inflight[w].raced
                                         ELSE CHOOSE r \in Rivals(w) : TRUE]
                ELSE IF v \in Rivals(w)
                THEN [inflight[v] EXCEPT !.raced = w]
                ELSE inflight[v]]

\* the response of a thread has left; its session is removed
Finish(w) ==
    /\ inflight[w].pc = "done"
    /\ UNCHANGED <<rows, last>>
    /\ inflight' = [inflight EXCEPT ![w] = WorkerIdle]

NextConc ==
    \/ \E w \in Workers : \E m \in Models : \E data \in ConcPayloads[m] :
          BeginCreate(w, m, data)
    \/ \E w \in Workers : \E m \in Models : \E data \in ConcPayloads[m] :
          BeginUpdate(w, m, data)
    \/ \E w \in Workers : \E m \in Models : \E key \in ConcFilters[m] :
          BeginDelete(w, m, key)
    \/ \E w \in Workers : EndRequest(w)
    \/ \E w \in Workers : Finish(w)

\* two request threads whose repository calls interleave between their
\* lookups and their commits
SpecConc == Init /\ [][NextConc]_vars

(* ---------------------------- properties ------------------------------- *)

\* the payload supplies a non-null value for every primary-key column
FullPrimaryKey(model, data) ==
    /\ PrimaryKey(model) \subseteq DOMAIN data
    /\ \A c \in PrimaryKey(model) : ~IsNull(c, data[c])

PrimaryKeyOf(model, data) == Restrict(data, PrimaryKey(model))

\* the records of db[model] carrying the primary key of data
SameKey(db, model, data) ==
    {r \in db[model] : \A c \in PrimaryKey(model) : r[c] = data[c]}

\* C1: create(RelatedTable, payload) with a table_id that is the id of no
\* Table record returns false and inserts nothing, whatever the payload's id.
C1_ForeignKeyEnforcedOnCreate ==
    (/\ last.op = "create"
     /\ last.model = "RelatedTable"
     /\ "table_id" \in DOMAIN last.data
     /\ \A t \in last.before["Table"] : t.id # last.data.table_id)
    => (last.ret = "false" /\ rows = last.before)

C3_DuplicateRejected ==
    (/\ last.op = "create"
     /\ PrimaryKey(last.model) \subseteq DOMAIN last.data
     /\ SameKey(last.before, last.model, last.data) # {})
    => (last.ret = "false" /\ rows = last.before)

\* C3 witness: a create met a record with its key and other field values
C3_Witness ==
    /\ last.op = "create"
    /\ last.model = "Table"
    /\ DOMAIN last.data = Columns("Table")
    /\ \E r \in SameKey(last.before, last.model, last.data) :
          r.name # last.data.name /\ ~IsNull("name", last.data.name)
    /\ last.ret = "false"

\* C4: update(T, payload) whose primary key matches no record of T returns
\* false and leaves every table as it was.
C4_UpdateRequiresExistence ==
    (/\ last.op = "update"
     /\ PrimaryKey(last.model) \subseteq DOMAIN last.data
     /\ SameKey(last.before, last.model, last.data) = {})
    => (last.ret = "false" /\ rows = last.before)

\* C4 witness: an update, complete enough to be inserted, found no record
\* under its key while the table held another record
C4_Witness ==
    /\ last.op = "update"
    /\ last.model = "Table"
    /\ DOMAIN last.data = Columns("Table")
    /\ FullPrimaryKey(last.model, last.data)
    /\ ~IsNull("name", last.data.name)
    /\ SameKey(last.before, last.model, last.data) = {}
    /\ last.before["Table"] # {}
    /\ last.ret = "false"

\* C5: delete(T, key) for a key matching no record returns false and changes
\* nothing; and in the state a successful delete by primary key leaves, a
\* further delete(T, key) returns false and leaves the state as it is.
C5_DeleteRequiresExistence ==
    /\ (/\ last.op = "delete"
        /\ get_records_by_key(last.before, last.model, last.data) = {})
       => (last.ret = "false" /\ rows = last.before)
    /\ (/\ last.op = "delete"
        /\ last.ret = "true"
        /\ DOMAIN last.data = PrimaryKey(last.model))
       => \A o \in delete_record(rows, last.model, last.data) :
             o.ret = "false" /\ o.db = rows

\* C5 witness (no match): a delete by primary key found nothing in a
\* non-empty table
C5_Witness ==
    /\ last.op = "delete"
    /\ DOMAIN last.data = PrimaryKey(last.model)
    /\ get_records_by_key(last.before, last.model, last.data) = {}
    /\ last.before[last.model] # {}
    /\ last.ret = "false"

\* C6: when update(T, payload) returns true, the record with the payload's
\* primary key holds the payload's value in every non-key payload column and
\* its previous value in every other column, and every other record of every
\* table is unchanged.
C6_UpdateEffect ==
    (last.op = "update" /\ last.ret = "true")
    => \E old \in SameKey(last.before, last.model, last.data) :
       \E new \in SameKey(rows, last.model, last.data) :
          /\ \A c \in Columns(last.model) :
                IF c \in DOMAIN last.data \ PrimaryKey(last.model)
                THEN new[c] = last.data[c]
                ELSE new[c] = old[c]
          /\ rows[last.model] \ {new} = last.before[last.model] \ {old}
          /\ \A m \in Models \ {last.model} : rows[m] = last.before[m]

\* C6 witness: an update changed one column of a record that had a value in
\* a column the payload omits, next to another stored record
C6_Witness ==
    /\ last.op = "update"
    /\ last.ret = "true"
    /\ last.model = "Table"
    /\ DOMAIN last.data = {"id", "name"}
    /\ \E old \in SameKey(last.before, last.model, last.data) :
          /\ old.name # last.data.name
          /\ old.description = "d"
          /\ old.is_active = FALSE
    /\ TotalRows(last.before) = 2

\* C7: delete(T, key) with a primary-key filter matching a record returns
\* true; afterwards reading T by key finds nothing, exactly that record is
\* gone and every other record of every table is unchanged.
C7_DeleteEffect ==
    (/\ last.op = "delete"
     /\ DOMAIN last.data = PrimaryKey(last.model)
     /\ get_records_by_key(last.before, last.model, last.data) # {})
    => /\ last.ret = "true"
       /\ get_record_by_key(rows, last.model, last.data) = {}
       /\ rows = [last.before EXCEPT ![last.model] =
                     @ \ get_records_by_key(last.before, last.model, last.data)]

\* C8: create and update with a payload holding none of the primary-key
\* columns return false without any lookup and leave the store unchanged.
C8_MissingPrimaryKeyRejected ==
    (/\ last.op \in {"create", "update"}
     /\ DOMAIN last.data \cap PrimaryKey(last.model) = {})
    => (last.ret = "false" /\ last.lookups = 0 /\ rows = last.before)

\* C8 witness: a create without primary key, otherwise insertable, was
\* rejected
C8_Witness ==
    /\ last.op = "create"
    /\ last.model = "Table"
    /\ DOMAIN last.data = {"name", "description", "is_active"}
    /\ ~IsNull("name", last.data.name)
    /\ last.ret = "false"
    /\ last.why = "no_primary_key"

\* C9: update(RelatedTable, payload) of an existing record with a payload
\* holding the primary key but not table_id never fails foreign-key
\* validation, whatever the Table table holds.
C9_AbsentForeignKeyNotValidated ==
    (/\ last.op = "update"
     /\ last.model = "RelatedTable"
     /\ "id" \in DOMAIN last.data
     /\ "table_id" \notin DOMAIN last.data
     /\ SameKey(last.before, last.model, last.data) # {})
    => last.why # "foreign_key"

\* C10: create(RelatedTable, payload) with a primary key not yet stored and
\* a table_id that is the id of a Table record passes validation with no
\* error and returns true unless the store rejects the insert, also when no
\* Table record has the payload's id.
C10_ValidForeignKeyAccepted ==
    (/\ last.op = "create"
     /\ last.model = "RelatedTable"
     /\ FullPrimaryKey(last.model, last.data)
     /\ SameKey(last.before, last.model, last.data) = {}
     /\ "table_id" \in DOMAIN last.data
     /\ \E t \in last.before["Table"] : t.id = last.data.table_id)
    => /\ validate_foreign_key_references(last.before, last.model, last.data) = {}
       /\ last.ret = "true" \/ last.why = "storage_error"

\* the two spellings of each letter table names are written with
CasePairs ==
    {<<"T", "t">>, <<"R", "r">>, <<"A", "a">>, <<"B", "b">>, <<"L", "l">>,
     <<"E", "e">>, <<"D", "d">>}

SameLetter(x, y) == x = y \/ <<x, y>> \in CasePairs \/ <<y, x>> \in CasePairs

\* a and b are the same name up to the case of their letters
IsCaseVariant(a, b) ==
    /\ Len(a) = Len(b)
    /\ \A i \in 1..Len(a) : SameLetter(a[i], b[i])

\* C11: a name that is a case variant of a registered table name resolves
\* to the model that the registered name itself resolves to, and a name that
\* is a case variant of no registered name (a prefix or a piece of one
\* included) resolves to nothing.
C11_CaseInsensitiveExact ==
    (last.route = "schema")
    => /\ \A m \in Models :
            IsCaseVariant(last.data, TableName(m))
            => /\ last.model = m
               /\ last.model = get_class_from_tablename(TableName(m))
               /\ last.status = 200
       /\ (\A m \in Models : ~IsCaseVariant(last.data, TableName(m)))
            => (last.model = NoModel /\ last.status = 404)

\* C11 witness: a spelling that differs from the registered name resolved
C11_Witness ==
    /\ last.route = "schema"
    /\ last.data = <<"t", "A", "b", "L", "e">>
    /\ last.model = "Table"

\* every check that precedes the commit of the last create or update passed
ChecksPassed ==
    last.why \notin {"no_primary_key", "foreign_key", "exists", "not_found"}

\* the store rejects what the last create or update hands it: a column
\* declared NOT NULL would hold NULL
CommitRaises ==
    IF last.op = "create"
    THEN ViolatesNotNull(last.model, NewRecord(last.model, last.data))
    ELSE \E c \in (DOMAIN last.data \ PrimaryKey(last.model))
                     \cap NotNull(last.model) : IsNull(c, last.data[c])

\* C12: a create or update whose checks passed and whose commit is rejected
\* by the store returns false, leaves the session rolled back, and leaves
\* every table exactly as it was before the call.
C12_CreateUpdateCommitOrRollback ==
    (/\ last.op \in {"create", "update"}
     /\ ChecksPassed
     /\ CommitRaises)
    => /\ last.ret = "false"
       /\ last.session = "active"
       /\ rows = last.before

\* C12 witness: the commit of an update was rejected for one column while
\* the payload also changed a column the store would have accepted
C12_Witness ==
    /\ last.op = "update"
    /\ last.model = "Table"
    /\ last.why = "storage_error"
    /\ DOMAIN last.data = {"id", "name", "description"}
    /\ IsNull("name", last.data.name)
    /\ \E old \in SameKey(last.before, last.model, last.data) :
          old.description # last.data.description

\* C13: a delete of an existing record whose commit is rejected by the store
\* returns false instead of raising, leaves the session rolled back with no
\* deletion pending, and leaves every table as it was.
C13_DeleteCommitOrRollback ==
    (/\ last.op = "delete"
     /\ \E record \in get_record_by_key(last.before, last.model, last.data) :
           CommitDelete(last.before, last.model, record) = {})
    => /\ last.ret = "false"
       /\ last.session = "active"
       /\ rows = last.before

\* C14: no two stored records of a table share a primary-key value, in
\* every state that interleaved creates, updates and deletes can reach.
C14_PrimaryKeyUnique ==
    \A m \in Models : \A r1 \in rows[m] : \A r2 \in rows[m] :
        (\A c \in PrimaryKey(m) : r1[c] = r2[c]) => r1 = r2

\* C14 witness: a create that had passed its existence lookup reached its
\* commit when a record with its key was stored, and the key is stored once
C14_Witness ==
    \E w \in Workers :
        /\ inflight[w].op = "create"
        /\ inflight[w].pc = "done"
        /\ inflight[w].why = "storage_error"
        /\ Cardinality(SameKey(rows, inflight[w].model, inflight[w].data)) = 1

\* the creates of two threads on one primary key that both passed the
\* existence lookup before either committed, and that have both returned
RacedCreates(w1, w2) ==
    /\ w1 # w2
    /\ inflight[w1].raced = w2
    /\ inflight[w2].raced = w1
    /\ \A w \in {w1, w2} : inflight[w].op = "create" /\ inflight[w].pc = "done"

\* C17: of two creates on one primary key that both passed the existence
\* lookup before either committed, exactly one returns true; the other
\* returns false through the exception path with its session rolled back;
\* and the table holds exactly one record with that key, the winner's.
C17_ConcurrentCreates ==
    \A w1 \in Workers : \A w2 \in Workers :
        RacedCreates(w1, w2)
        => \E win \in {w1, w2} :
              LET lose == CHOOSE w \in {w1, w2} : w # win
              IN /\ inflight[win].ret = "true"
                 /\ inflight[lose].ret = "false"
                 /\ inflight[lose].why = "storage_error"
                 /\ inflight[lose].session = "active"
                 /\ SameKey(rows, inflight[win].model, inflight[win].data)
                      = {NewRecord(inflight[win].model, inflight[win].data)}

\* C17 witness: two creates with different payloads raced
C17_Witness ==
    \E w1 \in Workers : \E w2 \in Workers :
        /\ RacedCreates(w1, w2)
        /\ inflight[w1].ret = "true"
        /\ inflight[w1].data # inflight[w2].data

C16_HttpFailureMapping ==
    (last.op \in {"create", "update", "delete"})
    => /\ last.ret # "true" => (last.status \in {400, 500} /\ last.body # "data")
       /\ (last.status = 200 /\ last.body = "data") => last.ret = "true"

\* the payload names a table_id that is the id of no Table record
InvalidForeignKey ==
    /\ last.model = "RelatedTable"
    /\ "table_id" \in DOMAIN last.data
    /\ ~IsNull("table_id", last.data.table_id)
    /\ \A t \in last.before["Table"] : t.id # last.data.table_id

\* C18: a create whose primary key exists and whose foreign key is invalid
\* fails as a foreign-key violation; an update whose primary key does not
\* exist and whose foreign key is invalid fails as not-found; neither
\* changes the store.
C18_OrderOfChecks ==
    /\ (/\ last.op = "create"
        /\ InvalidForeignKey
        /\ PrimaryKey(last.model) \subseteq DOMAIN last.data
        /\ SameKey(last.before, last.model, last.data) # {})
       => (last.ret = "false" /\ last.why = "foreign_key" /\ rows = last.before)
    /\ (/\ last.op = "update"
        /\ InvalidForeignKey
        /\ PrimaryKey(last.model) \subseteq DOMAIN last.data
        /\ SameKey(last.before, last.model, last.data) = {})
       => (last.ret = "false" /\ last.why = "not_found" /\ rows = last.before)

====
